---- MODULE Spec2Model ----
(***************************************************************************)
(* The blink observers (setupTwitterObserver, setupFarcasterObserver) and  *)
(* the security gate (checkSecurity) as one state machine.                 *)
(*                                                                         *)
(* The page is a set of posts (a tweet, a direct message, a cast).  Around *)
(* each post the model keeps the elements the pipeline reads and writes:   *)
(*   - the place a non-DM wrapper is appended to ("parent") and the place  *)
(*     a DM wrapper is prepended to ("grand"), each a sequence of wrapper  *)
(*     elements in document order;                                         *)
(*   - the card's parent element (slot), which the card path mounts into;  *)
(*   - the bookmark button's parent (Twitter).                             *)
(* An inserted node is a record of what the selectors of the source read   *)
(* from it.                                                                *)
(***************************************************************************)
EXTENDS Integers, Sequences, FiniteSets, TLC

\* ------------------------------------------------------------------ bounds

NPosts == 2
MaxInserts == 2
GateInserts == 1
BatchInserts == 3
MaxQueue == 2
MaxLinks == 2

Posts == 1..NPosts
Places == {"parent", "grand"}
Platforms == {"twitter", "farcaster"}

\* ------------------------------------------------------- the security gate

TrustStates == {"trusted", "unknown", "malicious"}
Levels == {"only-trusted", "non-malicious", "all"}
Categories == {"websites", "interstitials", "actions"}

\* security.ts, lines 11-18: the switch that follows the early return.
SecuritySwitch(state, securityLevel) ==
  CASE securityLevel = "only-trusted" -> state = "trusted"
    [] securityLevel = "non-malicious" -> state # "malicious"
    [] securityLevel = "all" -> TRUE

\* checkSecurity as it would be if it admitted trusted states only, whatever
\* the level.
checkSecurityTrustedOnly(state, securityLevel) == state = "trusted"

\* security.ts, lines 5-19: the first statement is `return true`, so the
\* switch is never reached.
checkSecurity(state, securityLevel) == TRUE

\* ------------------------------------------------------------ the options

DEFAULT_OPTIONS == [securityLevel |-> "only-trusted"]

Uniform(level) == [c \in Categories |-> level]

\* What a caller may pass as options.securityLevel: nothing (form "absent"),
\* one level (form "string", in `level`), or a record per category (form
\* "record", in `record`).  The field a form does not use holds a filler.
PerCategory(w, i, a) == [websites |-> w, interstitials |-> i, actions |-> a]

OptionInputs ==
  { [form |-> "absent", level |-> "all", record |-> Uniform("all")] }
    \cup { [form |-> "string", level |-> l, record |-> Uniform("all")] :
             l \in {"non-malicious", "all"} }
    \cup { [form |-> "record", level |-> "all", record |-> r] :
             r \in {PerCategory("only-trusted", "all", "all")} }

\* Every value a caller may pass: nothing, each level, each record of levels.
AllOptionInputs ==
  { [form |-> "absent", level |-> "all", record |-> Uniform("all")] }
    \cup { [form |-> "string", level |-> l, record |-> Uniform("all")] : l \in Levels }
    \cup { [form |-> "record", level |-> "all", record |-> PerCategory(w, i, a)] :
             w \in Levels, i \in Levels, a \in Levels }

\* normalizeOptions as it would be if it ignored what the caller passed.
normalizeOptionsDefaultOnly(options) ==
  [securityLevel |-> Uniform(DEFAULT_OPTIONS.securityLevel)]

\* part_002 lines 38-64, part_001 lines 38-64 (the two copies are the same).
normalizeOptions(options) ==
  IF options.form = "absent"
    THEN [securityLevel |-> Uniform(DEFAULT_OPTIONS.securityLevel)]
    ELSE IF options.form = "string"
      THEN [securityLevel |-> Uniform(options.level)]
      ELSE [securityLevel |-> options.record]

\* ------------------------------------------------------------------- URLs

\* The hrefs an anchor carries.  Twitter shortens every link (t.co); on
\* Farcaster the href is the link itself, and may be no URL at all.
ShortUrls == {"t.co/a", "t.co/b"}
InterstitialUrl == "dial.to/?action=solana-action:a.example/api"
WebsiteUrl == "b.example/x"
InvalidHref == "::"
Urls == {InterstitialUrl, WebsiteUrl}
ApiUrls == {"a.example/api", "b.example/api"}

\* utils/interstitial-url.ts is no part of the sources; its answer is read
\* from the two uses in handleNewNode (.isInterstitial, .decodedActionUrl).
isInterstitial(actionUrl) ==
  IF actionUrl = InterstitialUrl
    THEN [isInterstitial |-> TRUE, decodedActionUrl |-> "a.example/api"]
    ELSE [isInterstitial |-> FALSE, decodedActionUrl |-> "none"]

\* What the registry that init() loads says of the URLs of the model: the
\* answers of getExtendedWebsiteState, getExtendedInterstitialState and
\* getExtendedActionState.
Oracles ==
  [website : TrustStates, interstitial : TrustStates, action : TrustStates]

AllTrusted == [website |-> "trusted", interstitial |-> "trusted", action |-> "trusted"]

\* ------------------------------------------------------------------ nodes

\* What the selectors read from an inserted node:
\*   nodeType, localName, className  the node's own;
\*   post    the post the node lies in or around;
\*   up      closest() from the node finds the post's root element;
\*   down    the node is the post's root element or holds it;
\*   dm      Twitter: the root is a messageEntry; Farcaster: the node or an
\*           ancestor has class="relative";
\*   card    the href of the link-preview anchor, or "none";
\*   links   the hrefs of the anchors of the text region, in document order.
Node(nodeType, localName, className, post, up, down, dm, card, links) ==
  [nodeType |-> nodeType, localName |-> localName, className |-> className,
   post |-> post, up |-> up, down |-> down, dm |-> dm, card |-> card,
   links |-> links]

TextNode == Node("text", "#text", "", 1, FALSE, FALSE, FALSE, "none", <<>>)

\* A post with an even number is a direct message (its root is a
\* messageEntry), one with an odd number a tweet.
IsMessage(p) == p % 2 = 0

LinkLists == { [i \in 1..k |-> IF i = k THEN "t.co/b" ELSE "t.co/a"] : k \in 1..MaxLinks }

\* The shapes of element the host page inserts on Twitter, per post: the
\* post's root (up and down) with a card, with nothing, or with a text of
\* 1..MaxLinks links; an element under the root (up only) with the card or
\* with the text; an element around the root (down only) with the text; and
\* a <span>.
TwitterElements ==
  { Node("element", "div", "css-175oi2r", p, TRUE, TRUE, IsMessage(p), c[1], c[2]) :
      p \in Posts,
      c \in {<<"t.co/a", <<>> >>, <<"none", <<>> >>} \cup { <<"none", l>> : l \in LinkLists } }
    \cup { Node("element", "div", "css-175oi2r", p, TRUE, FALSE, IsMessage(p), c[1], c[2]) :
             p \in Posts, c \in {<<"t.co/a", <<>> >>, <<"none", <<"t.co/b">> >>} }
    \cup { Node("element", "div", "css-175oi2r", p, FALSE, TRUE, IsMessage(p),
                "none", <<"t.co/b">>) : p \in Posts }
    \cup { Node("element", "span", "css-175oi2r", 1, TRUE, FALSE, FALSE, "none", <<"t.co/b">>) }

\* The shapes of element the host page inserts on Farcaster, per parent
\* element (post): a cast of the first load (' fade-in') with no link, with a
\* link of each kind, or under an <a>; a cast loaded by scrolling
\* (class="relative") with and without a link; elements whose class holds
\* 'relative' among others, or no marker class; and a <span>.
FarcasterElements ==
  { Node("element", "div", "cast fade-in", p, FALSE, FALSE, FALSE, c, <<>>) :
      p \in Posts, c \in {"none", InterstitialUrl, WebsiteUrl, InvalidHref} }
    \cup { Node("element", "div", "cast fade-in", p, TRUE, FALSE, FALSE, WebsiteUrl, <<>>) :
             p \in Posts }
    \cup { Node("element", "div", "relative", p, FALSE, FALSE, TRUE, c, <<>>) :
             p \in Posts, c \in {"none", WebsiteUrl} }
    \cup { Node("element", "div", "relative flex", p, FALSE, FALSE, FALSE, "none", <<>>) :
             p \in Posts }
    \cup { Node("element", "div", "flex", p, FALSE, FALSE, FALSE, WebsiteUrl, <<>>) :
             p \in Posts }
    \cup { Node("element", "span", "relative", 1, FALSE, FALSE, TRUE, WebsiteUrl, <<>>) }

HostNodes(pf) ==
  {TextNode} \cup (IF pf = "twitter" THEN TwitterElements ELSE FarcasterElements)

\* The nodes the pipeline itself adds under the observed root.
WrapperNode(p, up, dm) ==
  Node("element", "div", IF dm THEN "dialect-wrapper dialect-dm" ELSE "dialect-wrapper",
       p, up, FALSE, dm, "none", <<>>)
ActionRootNode(p, up) ==
  Node("element", "div", "dialect-action-root-container", p, up, FALSE, FALSE, "none", <<>>)
DropdownNode(p) ==
  Node("element", "div", "dialect-dropdown-container", p, TRUE, FALSE, FALSE, "none", <<>>)

\* String.prototype.includes on the class names of the model.
Includes(className, part) ==
  CASE part = " fade-in" -> className \in {"cast fade-in"}
    [] part = "relative" -> className \in {"relative", "relative flex"}
    [] OTHER -> FALSE

\* -------------------------------------------------------------------- DOM

\* An element the pipeline mounts into: a wrapper it created, or the card's
\* parent.  children lists what the element holds: 0 stands for what the
\* host page put there (the card), d > 0 for the render root that dispatch d
\* built.
El(id, classList) ==
  [id |-> id, classList |-> classList, marginTop |-> "", marginBottom |-> "",
   children |-> <<>>]

NoEl == [id |-> 0, classList |-> {}, marginTop |-> "", marginBottom |-> "",
         children |-> <<>>]

\* The tree before the pipeline has touched it: no wrapper anywhere, every
\* card's parent holding the card, no bookmark button processed.
InitDom ==
  [wrappers |-> [l \in Posts \X Places |-> <<>>],
   slot |-> [p \in Posts |-> [El(0, {}) EXCEPT !.children = <<0>>]],
   processed |-> [p \in Posts |-> FALSE],
   dropdowns |-> [p \in Posts |-> 0],
   nextId |-> 1]

\* A mount point a dispatch holds: a wrapper (by id) or the card's parent of
\* a post.
WrapperRef(p, id) == [kind |-> "wrapper", post |-> p, id |-> id]
SlotRef(p) == [kind |-> "slot", post |-> p, id |-> 0]
NoRef == [kind |-> "none", post |-> 0, id |-> 0]

\* The wrappers under a post's root in document order: a DM wrapper is
\* prepended to the text's grandparent, a plain one appended to its parent.
WrappersOf(dom, p) == dom.wrappers[<<p, "grand">>] \o dom.wrappers[<<p, "parent">>]

\* message.querySelector('.dialect-wrapper'): the first in document order.
QueryWrapper(dom, p) ==
  IF WrappersOf(dom, p) = <<>> THEN NoEl ELSE Head(WrappersOf(dom, p))

SelectSeqNotId(seq, id) == SelectSeq(seq, LAMBDA w : w.id # id)

\* Element.remove() of the wrapper with this id.
RemoveWrapper(dom, p, id) ==
  [dom EXCEPT !.wrappers =
     [l \in Posts \X Places |->
        IF l[1] = p THEN SelectSeqNotId(dom.wrappers[l], id) ELSE dom.wrappers[l]]]

\* part_002 lines 461-472 (Twitter): the post's root by closest() from the
\* card (searchUp) or by findElementByTestId from the element, then the first
\* wrapper under it.  The card lies under the root whenever the element is
\* the root, holds it or lies under it.
findContainerInTweet(dom, n, searchUp) ==
  LET message == IF searchUp THEN n.up \/ n.down ELSE n.down
  IN IF message THEN QueryWrapper(dom, n.post) ELSE NoEl

\* part_001 lines 291-301 (Farcaster): closest('a') from the card, which is
\* the element itself, or the test ids from the element.
findContainerInCast(dom, n, searchUp) ==
  LET message == IF searchUp THEN n.up ELSE n.down
  IN IF message THEN QueryWrapper(dom, n.post) ELSE NoEl

\* part_002 lines 474-483: the card under the element, while the card is
\* still where the host page put it.
TwitterFindLinkPreview(dom, n) ==
  IF n.card # "none" /\ 0 \in { dom.slot[n.post].children[i] :
                                  i \in 1..Len(dom.slot[n.post].children) }
    THEN [found |-> TRUE, anchor |-> n.card]
    ELSE [found |-> FALSE, anchor |-> "none"]

\* part_001 lines 304-317: the card is the element, the anchor its first <a>.
FarcasterFindLinkPreview(n) ==
  IF n.card # "none"
    THEN [found |-> TRUE, anchor |-> n.card]
    ELSE [found |-> FALSE, anchor |-> "none"]

\* part_002 lines 484-496: the last anchor of the text region.
findLastLinkInText(n) ==
  IF Len(n.links) > 0
    THEN [found |-> TRUE, anchor |-> n.links[Len(n.links)]]
    ELSE [found |-> FALSE, anchor |-> "none"]

\* getContainerForLink as it would be without the branch for a message: the
\* wrapper always appended to the parent, never marked.
getContainerForLinkPlain(dom, p, dm) ==
  LET root == El(dom.nextId, {"dialect-wrapper"})
  IN [dom |-> [dom EXCEPT !.nextId = @ + 1,
                          !.wrappers[<<p, "parent">>] = Append(@, root)],
      root |-> root]

\* part_002 lines 518-529 and part_001 lines 319-330: a new wrapper, put
\* before the others of the grandparent (dm) or after those of the parent.
\* Yields the tree and the wrapper.
getContainerForLink(dom, p, dm) ==
  LET root == El(dom.nextId, IF dm THEN {"dialect-wrapper", "dialect-dm"}
                                   ELSE {"dialect-wrapper"})
      at == IF dm THEN <<p, "grand">> ELSE <<p, "parent">>
  IN [dom |-> [dom EXCEPT !.nextId = @ + 1,
                          !.wrappers[at] = IF dm THEN <<root>> \o @ ELSE Append(@, root)],
      root |-> root]

\* addMargin as it would be without the test for the wrapper's class.
addMarginToAny(element) ==
  [element EXCEPT !.marginTop = "12px",
                  !.marginBottom = IF "dialect-dm" \in element.classList THEN "8px" ELSE @]

\* part_002 lines 531-539 and part_001 lines 332-340.
addMargin(element) ==
  IF "dialect-wrapper" \in element.classList
    THEN [element EXCEPT !.marginTop = "12px",
                         !.marginBottom =
                            IF "dialect-dm" \in element.classList THEN "8px" ELSE @]
    ELSE element

\* replaceChildren as it would be if it appended and kept what was there.
appendChild(element, d) == [element EXCEPT !.children = Append(@, d)]

\* Element.replaceChildren(root of dispatch d).
replaceChildren(element, d) == [element EXCEPT !.children = <<d>>]

\* findBookmarkButton as it would be without the test of the attribute
\* data-dialect-processed.
findBookmarkButtonUnmarked(dom, n) ==
  IF n.up /\ ~IsMessage(n.post)
    THEN [found |-> TRUE, dom |-> [dom EXCEPT !.processed[n.post] = TRUE]]
    ELSE [found |-> FALSE, dom |-> dom]

\* part_002 lines 498-516: the bookmark button's parent of the tweet around
\* the element, once; a direct message has no tweet around it.
findBookmarkButton(dom, n) ==
  IF n.up /\ ~IsMessage(n.post) /\ ~dom.processed[n.post]
    THEN [found |-> TRUE, dom |-> [dom EXCEPT !.processed[n.post] = TRUE]]
    ELSE [found |-> FALSE, dom |-> dom]

\* part_002 lines 216-399 with line 121: the dropdown container is inserted
\* after the button's parent (line 393) and then moved into it (line 121).
createDropdown(dom, p) == [dom EXCEPT !.dropdowns[p] = @ + 1]

\* ------------------------------------------------------------ a dispatch

\* One call of handleNewNode.  pc is where the call stands:
\*   "unshorten", "manifest", "fetch", "supported"  awaiting that call;
\*   "returned"   ended by a return before the mount;
\*   "swallowed"  ended by an error, which .catch(noop) took;
\*   "mounted"    ended after replaceChildren.
\* n* count the network calls the dispatch made; created says that the
\* dispatch built a wrapper, removed that it took a wrapper it found out of
\* the tree, touched that its synchronous part changed the tree.  action is
\* what Action.fetch(...).catch(noop) gave ("undefined" or "descriptor"),
\* supported what isSupported did ("true", "false", "error"); both are "none"
\* before the call settles.
NewDispatch(n) ==
  [node |-> n, mp |-> NoRef, pc |-> "returned", url |-> "none",
   branch |-> "none", branchState |-> "none", apiUrl |-> "none",
   actionState |-> "none", nUnshorten |-> 0, nManifest |-> 0, nFetch |-> 0,
   nSupported |-> 0, created |-> FALSE, removed |-> FALSE, touched |-> FALSE,
   action |-> "none", supported |-> "none"]

\* ActionGate as it would be without the test for an endpoint that is null.
ActionGateNoNullCheck(rec, actionApiUrl, o, options) ==
  [rec EXCEPT !.pc = "fetch", !.apiUrl = actionApiUrl, !.actionState = o.action,
              !.nFetch = @ + 1]

\* part_002 lines 179-188, part_001 lines 194-203: the check of the action
\* endpoint and the call of Action.fetch.
ActionGate(rec, actionApiUrl, o, options) ==
  LET state == IF actionApiUrl # "none" THEN o.action ELSE "none"
  IN IF actionApiUrl = "none" \/ state = "none"
          \/ ~checkSecurity(state, options.securityLevel.actions)
       THEN [rec EXCEPT !.pc = "returned", !.apiUrl = actionApiUrl, !.actionState = state]
       ELSE [rec EXCEPT !.pc = "fetch", !.apiUrl = actionApiUrl, !.actionState = state,
                        !.nFetch = @ + 1]

\* Classify as it would be if every URL went the way of a website.
ClassifyAsWebsite(rec, actionUrl, o, options) ==
  [rec EXCEPT !.url = actionUrl, !.pc = "manifest", !.branch = "websites",
              !.branchState = o.website, !.nManifest = @ + 1]

\* part_002 lines 147-177, part_001 lines 162-192: the branch by
\* isInterstitial, its check, and the interstitial's decoding or the fetch of
\* the website's actions.json.
Classify(rec, actionUrl, o, options) ==
  LET interstitialData == isInterstitial(actionUrl)
      r == [rec EXCEPT !.url = actionUrl]
  IN IF interstitialData.isInterstitial
       THEN IF ~checkSecurity(o.interstitial, options.securityLevel.interstitials)
              THEN [r EXCEPT !.pc = "returned", !.branch = "interstitials",
                             !.branchState = o.interstitial]
              ELSE ActionGate([r EXCEPT !.branch = "interstitials",
                                        !.branchState = o.interstitial],
                              interstitialData.decodedActionUrl, o, options)
       ELSE IF ~checkSecurity(o.website, options.securityLevel.websites)
              THEN [r EXCEPT !.pc = "returned", !.branch = "websites",
                             !.branchState = o.website]
              ELSE [r EXCEPT !.pc = "manifest", !.branch = "websites",
                             !.branchState = o.website, !.nManifest = @ + 1]

\* The quick filtration as it would be with the test of the class names left
\* out.
PassesQuickFilterAnyClass(pf, n) == n.localName = "div"

\* The quick filtration as it would be if it let every node through.
PassesQuickFilterAnyNode(pf, n) == TRUE

\* The first quick filtration: part_002 lines 111-113 (Twitter: the element
\* is a div) and part_001 lines 119-133 (Farcaster: a div whose className
\* includes ' fade-in' or 'relative').
PassesQuickFilter(pf, n) ==
  /\ n.localName = "div"
  /\ pf = "farcaster" =>
       Includes(n.className, " fade-in") \/ Includes(n.className, "relative")

\* What the synchronous part of a call yields: the tree, the nodes it added
\* under the observed root (in order), and the dispatch.
Outcome(dom, added, rec, before) ==
  [dom |-> dom, added |-> added, rec |-> [rec EXCEPT !.touched = (dom # before)]]

\* part_002 lines 103-146: handleNewNode up to its first await, the request
\* of resolveTwitterShortenedUrl.
TwitterHandleNewNode(dom, n) ==
  IF ~PassesQuickFilter("twitter", n)
    THEN Outcome(dom, <<>>, NewDispatch(n), dom)
    ELSE
      LET linkPreview == TwitterFindLinkPreview(dom, n)
          likeButton == findBookmarkButton(dom, n)
          dom1 == IF likeButton.found THEN createDropdown(likeButton.dom, n.post)
                                      ELSE likeButton.dom
          added1 == IF likeButton.found
                      THEN <<DropdownNode(n.post), DropdownNode(n.post)>> ELSE <<>>
          container == findContainerInTweet(dom1, n, linkPreview.found)
      IN IF linkPreview.found
           THEN Outcome(IF container.id # 0 THEN RemoveWrapper(dom1, n.post, container.id)
                                            ELSE dom1,
                        added1,
                        [NewDispatch(n) EXCEPT !.mp = SlotRef(n.post), !.pc = "unshorten",
                                               !.url = linkPreview.anchor, !.nUnshorten = 1,
                                               !.removed = (container.id # 0)],
                        dom)
           ELSE IF container.id # 0
             THEN Outcome(dom1, added1, NewDispatch(n), dom)
             ELSE
               LET link == findLastLinkInText(n)
                   made == getContainerForLink(dom1, n.post, n.dm)
               IN IF link.found
                    THEN Outcome(made.dom,
                                 Append(added1, WrapperNode(n.post, TRUE, n.dm)),
                                 [NewDispatch(n) EXCEPT
                                    !.mp = WrapperRef(n.post, made.root.id),
                                    !.pc = "unshorten", !.url = link.anchor,
                                    !.nUnshorten = 1, !.created = TRUE],
                                 dom)
                    ELSE Outcome(dom1, added1, NewDispatch(n), dom)

\* part_001 lines 111-203: handleNewNode up to its first await, the fetch of
\* actions.json or Action.fetch; new URL(anchor.href) throws on a href that
\* is no URL.
FarcasterHandleNewNode(dom, n, o, options) ==
  IF ~PassesQuickFilter("farcaster", n)
    THEN Outcome(dom, <<>>, NewDispatch(n), dom)
    ELSE
        LET linkPreview == FarcasterFindLinkPreview(n)
            container == findContainerInCast(dom, n, linkPreview.found)
            made == getContainerForLink(dom, n.post, n.dm)
            rec == [NewDispatch(n) EXCEPT !.mp = SlotRef(n.post),
                                          !.removed = (container.id # 0)]
        IN IF linkPreview.found
             THEN Outcome(IF container.id # 0 THEN RemoveWrapper(dom, n.post, container.id)
                                              ELSE dom,
                          <<>>,
                          IF linkPreview.anchor = InvalidHref
                            THEN [rec EXCEPT !.pc = "swallowed"]
                            ELSE Classify(rec, linkPreview.anchor, o, options),
                          dom)
             ELSE Outcome(made.dom,
                          <<WrapperNode(n.post, n.up, n.dm)>>,
                          [NewDispatch(n) EXCEPT !.mp = WrapperRef(n.post, made.root.id),
                                                 !.created = TRUE],
                          dom)

handleNewNode(pf, dom, n, o, options) ==
  IF pf = "twitter" THEN TwitterHandleNewNode(dom, n)
                    ELSE FarcasterHandleNewNode(dom, n, o, options)

RECURSIVE MountInto(_, _, _)
MountInto(seq, id, k) ==
  IF seq = <<>> THEN <<>>
  ELSE <<IF Head(seq).id = id THEN replaceChildren(addMargin(Head(seq)), k)
                              ELSE Head(seq)>> \o MountInto(Tail(seq), id, k)

\* part_002 lines 205-213, part_001 lines 220-228: addMargin on the mount
\* point, then replaceChildren with the render root of dispatch k.  On
\* Farcaster the card's parent is the element's parent, which also holds the
\* plain wrappers: replaceChildren takes them out of the tree.  A wrapper
\* that was removed is no longer in the tree, and writing to it shows nothing.
Mount(pf, dom, rec, k) ==
  IF rec.mp.kind = "slot"
    THEN [dom EXCEPT !.slot[rec.mp.post] = replaceChildren(addMargin(@), k),
                     !.wrappers[<<rec.mp.post, "parent">>] =
                        IF pf = "farcaster" THEN <<>> ELSE @]
    ELSE [dom EXCEPT !.wrappers =
            [l \in Posts \X Places |-> MountInto(dom.wrappers[l], rec.mp.id, k)]]

\* Whether the mount point is in the tree (a removed wrapper is not).
Attached(dom, mp) ==
  \/ mp.kind = "slot"
  \/ \E l \in Posts \X Places : \E i \in 1..Len(dom.wrappers[l]) :
       dom.wrappers[l][i].id = mp.id

\* ------------------------------------------------------------------ state

VARIABLES
  platform,      \* which observer was set up
  given,         \* options.securityLevel as the caller passed it
  mergedOptions, \* normalizeOptions(options)
  trust,         \* the verdicts of the registry that init() loads
  hasIsSupported,\* config.isSupported is provided
  registry,      \* ActionsRegistry.init(): "pending", "resolved", "rejected"
  observing,     \* observer.observe(root) was called
  mutq,          \* the mutation records queued for the callback, each the
                 \* sequence of its addedNodes
  dom,           \* the tree
  disp,          \* every call of handleNewNode so far, in call order
  inserts,       \* the insertions the host page made
  delivered,     \* the records the last callback was called with
  lastFrom,      \* Len(disp) when the last callback began
  callbacks      \* how many times the callback ran

vars == <<platform, given, mergedOptions, trust, hasIsSupported, registry, observing,
          mutq, dom, disp, inserts, delivered, lastFrom, callbacks>>

\* setupTwitterObserver / setupFarcasterObserver (part_002 lines 66-79,
\* part_001 lines 66-86) up to the call of refreshRegistry, for the options
\* and the registry verdicts given.
Setup(optionInputs, verdicts) ==
  /\ platform \in Platforms
  /\ given \in optionInputs
  /\ mergedOptions = normalizeOptions(given)
  /\ trust \in verdicts
  /\ hasIsSupported \in BOOLEAN
  /\ registry = "pending"
  /\ observing = FALSE
  /\ mutq = <<>>
  /\ dom = InitDom
  /\ disp = <<>>
  /\ inserts = 0
  /\ delivered = <<>>
  /\ lastFrom = 0
  /\ callbacks = 0

\* The observers set up with no options, on a registry that trusts every URL.
Init == Setup({g \in OptionInputs : g.form = "absent"}, {AllTrusted})

\* The observers set up with each form of options, on every registry.
InitGate == Setup(OptionInputs, Oracles)

RECURSIVE Flatten(_)
Flatten(records) ==
  IF records = <<>> THEN <<>> ELSE Head(records) \o Flatten(Tail(records))

\* init() resolves and the .then callback runs: the observer is created and
\* attached (part_002 lines 79-101, part_001 lines 86-109).
RegistryResolves ==
  /\ registry = "pending"
  /\ registry' = "resolved"
  /\ observing' = TRUE
  /\ UNCHANGED <<platform, given, mergedOptions, trust, hasIsSupported, mutq, dom, disp,
                 inserts, delivered, lastFrom, callbacks>>

\* RegistryRejects as it would be with the observer attached by .finally
\* instead of .then.
RegistryRejectsAttaches ==
  /\ registry = "pending"
  /\ registry' = "rejected"
  /\ observing' = TRUE
  /\ UNCHANGED <<platform, given, mergedOptions, trust, hasIsSupported, mutq,
                 dom, disp, inserts, delivered, lastFrom, callbacks>>

\* init() rejects: .then has no rejection handler, its callback never runs.
RegistryRejects ==
  /\ registry = "pending"
  /\ registry' = "rejected"
  /\ UNCHANGED <<platform, given, mergedOptions, trust, hasIsSupported, observing, mutq,
                 dom, disp, inserts, delivered, lastFrom, callbacks>>

\* The host page adds a node under the root, in a mutation record of its own
\* or as one more added node of the latest record.  Without an observer
\* nothing records it.
HostInsert(budget, nodes) ==
  /\ inserts < budget
  /\ Len(Flatten(mutq)) < MaxQueue
  /\ inserts' = inserts + 1
  /\ \E n \in nodes, fresh \in BOOLEAN :
       mutq' = IF ~observing THEN mutq
               ELSE IF fresh \/ mutq = <<>> THEN Append(mutq, <<n>>)
               ELSE [mutq EXCEPT ![Len(mutq)] = Append(@, n)]
  /\ UNCHANGED <<platform, given, mergedOptions, trust, hasIsSupported, registry,
                 observing, dom, disp, delivered, lastFrom, callbacks>>

\* The loops of the observer callback over the added nodes of the records
\* (part_002 lines 81-98, part_001 lines 88-106): a node that is no element
\* ends the callback (return), an element is handed to handleNewNode, whose
\* promise gets .catch(noop).
RECURSIVE RunCallback(_, _, _, _, _)
RunCallback(pf, acc, nodes, o, options) ==
  IF nodes = <<>>
    THEN acc
    ELSE IF Head(nodes).nodeType # "element"
      THEN acc
      ELSE LET r == handleNewNode(pf, acc.dom, Head(nodes), o, options)
           IN RunCallback(pf,
                          [dom |-> r.dom, added |-> acc.added \o r.added,
                           disp |-> Append(acc.disp, r.rec)],
                          Tail(nodes), o, options)

\* Each node the pipeline added is a mutation record of its own.
RECURSIVE Records(_)
Records(added) ==
  IF added = <<>> THEN <<>> ELSE << <<Head(added)>> >> \o Records(Tail(added))

ObserverCallback ==
  /\ observing
  /\ mutq # <<>>
  /\ LET r == RunCallback(platform, [dom |-> dom, added |-> <<>>, disp |-> disp],
                          Flatten(mutq), trust, mergedOptions)
     IN /\ dom' = r.dom
        /\ disp' = r.disp
        /\ mutq' = Records(r.added)
  /\ delivered' = mutq
  /\ lastFrom' = Len(disp)
  /\ callbacks' = callbacks + 1
  /\ UNCHANGED <<platform, given, mergedOptions, trust, hasIsSupported, registry,
                 observing, inserts>>

\* The continuation of dispatch k after its last await: the mount, and the
\* render root as a new node under the observed root when the mount point is
\* in the tree.
Mounted(k, rec) ==
  /\ dom' = Mount(platform, dom, disp[k], k)
  /\ disp' = [disp EXCEPT ![k] = [rec EXCEPT !.pc = "mounted"]]
  /\ mutq' = IF Attached(dom, disp[k].mp)
               THEN Append(mutq, <<ActionRootNode(disp[k].node.post,
                                                  IF platform = "twitter" THEN TRUE
                                                  ELSE disp[k].node.up)>>)
               ELSE mutq

\* resolveTwitterShortenedUrl settles (part_002 lines 146 and 445-452): the
\* request fails or the page has no URL in its title (the promise of
\* handleNewNode rejects), or it yields the link's URL.
UnshortenSettles ==
  \E k \in 1..Len(disp) :
    /\ disp[k].pc = "unshorten"
    /\ \E out \in Urls \cup {"error"} :
         disp' = [disp EXCEPT ![k] =
                    IF out = "error" THEN [@ EXCEPT !.pc = "swallowed"]
                    ELSE Classify(@, out, trust, mergedOptions)]
    /\ UNCHANGED <<platform, given, mergedOptions, trust, hasIsSupported, registry,
                   observing, mutq, dom, inserts, delivered, lastFrom, callbacks>>

\* ManifestSettles as it would be if a failed fetch of actions.json were
\* tried once more.
ManifestSettlesRetriesOnce ==
  \E k \in 1..Len(disp) :
    /\ disp[k].pc = "manifest"
    /\ \E out \in {"error", "none", "b.example/api"} :
         disp' = [disp EXCEPT ![k] =
                    IF out = "error"
                      THEN IF @.nManifest < 2 THEN [@ EXCEPT !.nManifest = @ + 1]
                                              ELSE [@ EXCEPT !.pc = "swallowed"]
                    ELSE ActionGate(@, out, trust, mergedOptions)]
    /\ UNCHANGED <<platform, given, mergedOptions, trust, hasIsSupported, registry,
                   observing, mutq, dom, inserts, delivered, lastFrom, callbacks>>

\* The fetch of actions.json settles (part_002 lines 170-177, part_001 lines
\* 185-192): it fails or is no JSON (the promise rejects), or mapUrl finds no
\* endpoint (null), or one.
ManifestSettles ==
  \E k \in 1..Len(disp) :
    /\ disp[k].pc = "manifest"
    /\ \E out \in {"error", "none", "b.example/api"} :
         disp' = [disp EXCEPT ![k] =
                    IF out = "error" THEN [@ EXCEPT !.pc = "swallowed"]
                    ELSE ActionGate(@, out, trust, mergedOptions)]
    /\ UNCHANGED <<platform, given, mergedOptions, trust, hasIsSupported, registry,
                   observing, mutq, dom, inserts, delivered, lastFrom, callbacks>>

\* FetchSettles as it would be if the mount followed the descriptor at once,
\* isSupported provided or not.
FetchSettlesSkipsSupported ==
  \E k \in 1..Len(disp) :
    /\ disp[k].pc = "fetch"
    /\ \E action \in BOOLEAN :
         IF ~action
           THEN /\ disp' = [disp EXCEPT ![k].pc = "returned", ![k].action = "undefined"]
                /\ UNCHANGED <<dom, mutq>>
           ELSE Mounted(k, [disp[k] EXCEPT !.action = "descriptor"])
    /\ UNCHANGED <<platform, given, mergedOptions, trust, hasIsSupported, registry,
                   observing, inserts, delivered, lastFrom, callbacks>>

\* Action.fetch settles (part_002 lines 188-213, part_001 lines 203-228): a
\* failure becomes undefined by .catch(noop) and the call returns; with an
\* action, isSupported is asked when the adapter has one, else the mount
\* follows at once.
FetchSettles ==
  \E k \in 1..Len(disp) :
    /\ disp[k].pc = "fetch"
    /\ \E action \in BOOLEAN :
         IF ~action
           THEN /\ disp' = [disp EXCEPT ![k].pc = "returned", ![k].action = "undefined"]
                /\ UNCHANGED <<dom, mutq>>
           ELSE IF hasIsSupported
             THEN /\ disp' = [disp EXCEPT ![k].pc = "supported", ![k].nSupported = @ + 1,
                                          ![k].action = "descriptor"]
                  /\ UNCHANGED <<dom, mutq>>
             ELSE Mounted(k, [disp[k] EXCEPT !.action = "descriptor"])
    /\ UNCHANGED <<platform, given, mergedOptions, trust, hasIsSupported, registry,
                   observing, inserts, delivered, lastFrom, callbacks>>

\* config.isSupported settles (part_002 lines 194-213, part_001 lines
\* 209-228): it throws or rejects, or answers.
SupportedSettles ==
  \E k \in 1..Len(disp) :
    /\ disp[k].pc = "supported"
    /\ \E out \in {"error", "false", "true"} :
         CASE out = "error" ->
                /\ disp' = [disp EXCEPT ![k].pc = "swallowed", ![k].supported = out]
                /\ UNCHANGED <<dom, mutq>>
           [] out = "false" ->
                /\ disp' = [disp EXCEPT ![k].pc = "returned", ![k].supported = out]
                /\ UNCHANGED <<dom, mutq>>
           [] out = "true" -> Mounted(k, [disp[k] EXCEPT !.supported = out])
    /\ UNCHANGED <<platform, given, mergedOptions, trust, hasIsSupported, registry,
                   observing, inserts, delivered, lastFrom, callbacks>>

Next ==
  \/ RegistryResolves
  \/ RegistryRejects
  \/ HostInsert(MaxInserts, HostNodes(platform))
  \/ ObserverCallback
  \/ UnshortenSettles
  \/ ManifestSettles
  \/ FetchSettles
  \/ SupportedSettles

Spec == Init /\ [][Next]_vars

\* One insertion by the host page, under each form of options and every
\* registry.
NextGate ==
  \/ RegistryResolves
  \/ RegistryRejects
  \/ HostInsert(GateInserts, HostNodes(platform))
  \/ ObserverCallback
  \/ UnshortenSettles
  \/ ManifestSettles
  \/ FetchSettles
  \/ SupportedSettles

SpecGate == InitGate /\ [][NextGate]_vars

\* Up to BatchInserts insertions by the host page, each of a text node or of
\* one of two elements of the first post: one with nothing to process, and
\* one whose dispatch fails (a link that does not resolve, a href that is no
\* URL).
BatchNodes(pf) ==
  { n \in HostNodes(pf) :
      \/ n.nodeType = "text"
      \/ /\ n.post = 1 /\ n.localName = "div" /\ n.up = n.down
         /\ n.className \in {"css-175oi2r", "cast fade-in"}
         /\ n.card \in {"none", InvalidHref}
         /\ Len(n.links) <= 1 }

NextBatch ==
  \/ RegistryResolves
  \/ RegistryRejects
  \/ HostInsert(BatchInserts, BatchNodes(platform))
  \/ ObserverCallback
  \/ UnshortenSettles
  \/ ManifestSettles
  \/ FetchSettles
  \/ SupportedSettles

SpecBatch == Init /\ [][NextBatch]_vars

\* The setup alone, with every value of options a caller may pass: the
\* options are normalized, then init() resolves or rejects.
InitOptions == Setup(AllOptionInputs, {AllTrusted})

NextOptions ==
  \/ RegistryResolves
  \/ RegistryRejects

SpecOptions == InitOptions /\ [][NextOptions]_vars

\* The callback can run exactly when the observer is attached and a record
\* is queued; every run changes callbacks.
CallbackEnabled == observing /\ mutq # <<>>

\* Weak fairness of ObserverCallback, WF_vars(ObserverCallback), written out
\* with CallbackEnabled for ENABLED <<ObserverCallback>>_vars.
CallbackFair ==
  []<>(~CallbackEnabled) \/ []<><<ObserverCallback>>_vars

\* The observers with the browser delivering every queued mutation record
\* and every network call settling: the callback is a microtask the browser
\* runs once records are queued, and each awaited call completes.  The host
\* page inserts when it will, up to MaxInserts times.
SpecLive ==
  /\ Init
  /\ [][Next]_vars
  /\ CallbackFair
  /\ WF_vars(UnshortenSettles)
  /\ WF_vars(ManifestSettles)
  /\ WF_vars(FetchSettles)
  /\ WF_vars(SupportedSettles)

\* ----------------------------------------------------------------- claims

\* The gate as section 4.4 of the specification words it.
LevelAdmits(state, level) ==
  \/ level = "all"
  \/ level = "non-malicious" /\ state # "malicious"
  \/ level = "only-trusted" /\ state = "trusted"

\* The registry's verdict and the configured level of a checkpoint category.
VerdictOf(c) ==
  CASE c = "websites" -> trust.website
    [] c = "interstitials" -> trust.interstitial
    [] c = "actions" -> trust.action

\* A dispatch that has called Action.fetch.
HasFetched(k) == disp[k].nFetch > 0

\* C1: for every trust state and every level, checkSecurity answers true
\* exactly when the level is 'all', or 'non-malicious' and the state is not
\* malicious, or 'only-trusted' and the state is trusted.  Stated of the
\* verdicts of the registry and the levels of the options in force.
C1_GateFollowsLevel ==
  \A c \in Categories :
    checkSecurity(VerdictOf(c), mergedOptions.securityLevel[c])
      = LevelAdmits(VerdictOf(c), mergedOptions.securityLevel[c])

\* C2: a dispatch whose URL fails the configured level at the checkpoint of
\* its branch, or at the actions checkpoint, never calls Action.fetch.
C2_NoFetchAfterFailedCheck ==
  \A k \in 1..Len(disp) :
    (\/ /\ disp[k].branch # "none"
        /\ ~LevelAdmits(disp[k].branchState, mergedOptions.securityLevel[disp[k].branch])
     \/ /\ disp[k].actionState # "none"
        /\ ~LevelAdmits(disp[k].actionState, mergedOptions.securityLevel.actions))
      => ~HasFetched(k)

\* C3: with securityLevel {websites: only-trusted, interstitials: all,
\* actions: all}, a dispatch for a website URL whose state is unknown fetches
\* no manifest, calls no Action.fetch and mounts nothing.
C3_UnknownWebsiteStopsBeforeManifest ==
  \A k \in 1..Len(disp) :
    (/\ mergedOptions.securityLevel = PerCategory("only-trusted", "all", "all")
     /\ disp[k].branch = "websites"
     /\ disp[k].branchState = "unknown")
      => /\ disp[k].nManifest = 0
         /\ disp[k].nFetch = 0
         /\ disp[k].pc # "mounted"

\* The nodes of the last callback's records that are elements, and the nodes
\* the callback handed to handleNewNode, both in order.
IsElement(n) == n.nodeType = "element"
ElementsDelivered == SelectSeq(Flatten(delivered), IsElement)
DispatchedByLastCallback == [i \in 1..(Len(disp) - lastFrom) |-> disp[lastFrom + i].node]

\* C4: every added node of a batch that is an element is dispatched exactly
\* once, also after a node that is no element.
C4_EveryElementDispatchedOnce ==
  /\ Len(disp) - lastFrom = Len(ElementsDelivered)
  /\ \A i \in 1..Len(ElementsDelivered) : DispatchedByLastCallback[i] = ElementsDelivered[i]

\* C5: while init() is pending, and for ever once it has rejected, no
\* observer is attached, no mutation is recorded and no dispatch occurs.
C5_NoDispatchBeforeRegistry ==
  registry # "resolved" => (~observing /\ mutq = <<>> /\ disp = <<>> /\ callbacks = 0)

\* init() rejected and the host page inserted all it had to insert: nothing
\* was dispatched.
C5_Witness ==
  registry = "rejected" /\ inserts = MaxInserts /\ disp = <<>>

\* C6: a failure inside one dispatch is swallowed, and every element
\* inserted afterwards, in the same batch or a later one, is still
\* dispatched: a callback that runs with a failed dispatch behind it, or that
\* sees one fail, dispatches every element of its records.
C6_ElementsAfterFailureDispatched ==
  [][ (/\ callbacks' = callbacks + 1
       /\ \E k \in 1..Len(disp') : disp'[k].pc = "swallowed")
        => Len(disp') - Len(disp) = Len(SelectSeq(Flatten(mutq), IsElement)) ]_vars

\* An element that matches one of the marker classes of the source.
MatchesMarkerClasses(n) ==
  Includes(n.className, " fade-in") \/ Includes(n.className, "relative")

\* The dispatch changed nothing in the tree and made no network call.
NoEffect(k) ==
  /\ ~disp[k].touched
  /\ ~disp[k].created
  /\ disp[k].nUnshorten = 0 /\ disp[k].nManifest = 0
  /\ disp[k].nFetch = 0 /\ disp[k].nSupported = 0
  /\ disp[k].pc = "returned"

\* C7 as stated: the dispatch of an element that matches no marker class
\* changes nothing in the tree and makes no network call.
C7_NoMarkerClassNoEffect ==
  \A k \in 1..Len(disp) : ~MatchesMarkerClasses(disp[k].node) => NoEffect(k)

\* What each platform's quick filtration turns away: on Farcaster what is no
\* div or matches no marker class, on Twitter, which tests no class, what is
\* no div.
QuickRejected(pf, n) ==
  \/ n.localName # "div"
  \/ pf = "farcaster" /\ ~MatchesMarkerClasses(n)

\* C7 as amended: the dispatch of an element that the platform's quick
\* filtration turns away changes nothing in the tree and makes no network
\* call.
C7_QuickRejectedNoEffect ==
  \A k \in 1..Len(disp) : QuickRejected(platform, disp[k].node) => NoEffect(k)

\* A Farcaster div with a link and no marker class was dispatched.
C7_Witness ==
  \E k \in 1..Len(disp) :
    /\ platform = "farcaster"
    /\ disp[k].node.className = "flex"
    /\ disp[k].node.card = WebsiteUrl

\* C8: at no reachable state do two sibling 'dialect-wrapper' elements exist
\* for the same container.
C8_NeverTwoSiblingWrappers ==
  \A l \in Posts \X Places : Len(dom.wrappers[l]) <= 1

\* C9: of two dispatches on the same element at most one passes the 'not yet
\* processed' check: the two never both create a wrapper.
C9_AtMostOneDispatchClaims ==
  \A j, k \in 1..Len(disp) :
    (j < k /\ disp[j].node = disp[k].node) => ~(disp[j].created /\ disp[k].created)

\* A dispatch of the card path that passed every stage and mounted.
CardMounted(k) == disp[k].mp.kind = "slot" /\ disp[k].pc = "mounted"

\* The card's parent of the post holds one child, the render root of a
\* card dispatch of that post that mounted.
OneMountAtCardParent(p) ==
  /\ Len(dom.slot[p].children) = 1
  /\ \E j \in 1..Len(disp) :
       CardMounted(j) /\ disp[j].mp.post = p /\ dom.slot[p].children = <<j>>

\* C10 as stated: after a card dispatch that passed every stage, one mount
\* at the card's parent, margin-top applied to it, and margin-bottom exactly
\* when the container is a message.
C10_CardMountHasMarginTop ==
  \A k \in 1..Len(disp) :
    CardMounted(k) =>
      /\ OneMountAtCardParent(disp[k].mp.post)
      /\ dom.slot[disp[k].mp.post].marginTop = "12px"
      /\ (dom.slot[disp[k].mp.post].marginBottom = "8px") = disp[k].node.dm

\* C10 as amended: after a card dispatch that passed every stage, one mount
\* at the card's parent, and neither margin applied to it, message or not:
\* the card's parent is no 'dialect-wrapper'.
C10_CardMountHasNoMargin ==
  \A k \in 1..Len(disp) :
    CardMounted(k) =>
      /\ OneMountAtCardParent(disp[k].mp.post)
      /\ dom.slot[disp[k].mp.post].marginTop = ""
      /\ dom.slot[disp[k].mp.post].marginBottom = ""

\* On Twitter, a card inside a message was mounted after isSupported said yes.
C10_Witness ==
  \E k \in 1..Len(disp) :
    /\ platform = "twitter" /\ hasIsSupported
    /\ CardMounted(k) /\ disp[k].node.dm /\ disp[k].nSupported = 1

\* A dispatch that found a candidate and ended by a return before the mount:
\* a check of the security levels failed, the manifest gave no endpoint,
\* Action.fetch failed, or isSupported answered false.
Rejected(k) == disp[k].pc = "returned" /\ disp[k].mp.kind # "none"

\* C11: a dispatch that ends rejected has mounted nothing and has left the
\* wrapper it found for its container in the tree.
C11_RejectedLeavesWrapper ==
  \A k \in 1..Len(disp) : Rejected(k) => ~disp[k].removed

\* C12: with securityLevel 'all', whatever the registry says of the URLs,
\* every dispatch whose URL resolved to an action endpoint has called
\* Action.fetch.
C12_LevelAllReachesFetch ==
  mergedOptions.securityLevel = Uniform("all") =>
    \A k \in 1..Len(disp) : disp[k].apiUrl # "none" => HasFetched(k)

\* Under 'all' and a registry that calls the website and the endpoint
\* malicious, a dispatch of the website branch called Action.fetch.
C12_Witness ==
  /\ given.form = "string" /\ given.level = "all"
  /\ trust.website = "malicious" /\ trust.action = "malicious"
  /\ \E k \in 1..Len(disp) :
       disp[k].branch = "websites" /\ disp[k].apiUrl # "none" /\ HasFetched(k)

\* C13: normalizeOptions gives a single level to all three categories,
\* returns a per-category record with each category's level unchanged, and
\* gives 'only-trusted' to all three when no securityLevel is passed.
C13_NormalizedAsGiven ==
  /\ given.form = "string" =>
       \A c \in Categories : mergedOptions.securityLevel[c] = given.level
  /\ given.form = "record" =>
       \A c \in Categories : mergedOptions.securityLevel[c] = given.record[c]
  /\ given.form = "absent" =>
       \A c \in Categories : mergedOptions.securityLevel[c] = "only-trusted"

\* The observer was set up with three different levels, and init() resolved.
C13_Witness ==
  /\ given.form = "record"
  /\ given.record = PerCategory("all", "non-malicious", "only-trusted")
  /\ mergedOptions.securityLevel.websites = "all"
  /\ registry = "resolved"

\* The wrappers in the tree, and what the element behind a mount point
\* holds (nothing to tell for a wrapper that is out of the tree).
WrapperElements(d) ==
  UNION { { d.wrappers[l][i] : i \in 1..Len(d.wrappers[l]) } : l \in Posts \X Places }

ChildrenAt(d, mp) ==
  IF mp.kind = "slot"
    THEN { d.slot[mp.post].children }
    ELSE { w.children : w \in { x \in WrapperElements(d) : x.id = mp.id } }

HoldsAtMostOneRoot(d) ==
  \A e \in { d.slot[p] : p \in Posts } \cup WrapperElements(d) : Len(e.children) <= 1

\* C14: every mount point holds at most one child at all times, and the
\* step in which a dispatch mounts leaves its mount point with exactly one
\* child, the render root of that dispatch: what earlier mounts put there is
\* gone.
C14_MountSupersedes ==
  /\ [] HoldsAtMostOneRoot(dom)
  /\ [][ \A k \in 1..Len(disp) :
           (disp[k].pc # "mounted" /\ disp'[k].pc = "mounted")
             => \A c \in ChildrenAt(dom', disp[k].mp) : c = <<k>> ]_vars

\* Two dispatches mounted into the same mount point, one after the other.
C14_Witness ==
  \E j, k \in 1..Len(disp) :
    /\ j # k
    /\ disp[j].pc = "mounted" /\ disp[k].pc = "mounted"
    /\ disp[j].mp = disp[k].mp
    /\ ChildrenAt(dom, disp[k].mp) \in { {<<j>>}, {<<k>>} }

\* The stages of a dispatch in their order; a dispatch that ended stands
\* after all of them.
StageRank(pc) ==
  CASE pc = "unshorten" -> 1
    [] pc = "manifest" -> 2
    [] pc = "fetch" -> 3
    [] pc = "supported" -> 4
    [] OTHER -> 5

\* What the stage a dispatch stands at tells of the stages before and after.
StagesInOrder(k) ==
  LET d == disp[k]
  IN /\ d.nUnshorten > 0 => platform = "twitter"
     /\ (platform = "twitter" /\ d.branch # "none") => d.nUnshorten = 1
     /\ d.pc = "unshorten" =>
          d.branch = "none" /\ d.nManifest = 0 /\ d.nFetch = 0 /\ d.nSupported = 0
     /\ d.nManifest > 0 => d.branch = "websites"
     /\ d.pc = "manifest" =>
          d.actionState = "none" /\ d.nFetch = 0 /\ d.nSupported = 0
     /\ d.nFetch > 0 => d.branch # "none" /\ d.actionState # "none"
     /\ d.pc = "fetch" => d.action = "none" /\ d.nSupported = 0
     /\ d.nSupported > 0 => hasIsSupported /\ d.action = "descriptor"
     /\ d.pc = "supported" => d.supported = "none"
     /\ d.pc = "mounted" =>
          /\ d.mp.kind # "none"
          /\ d.action = "descriptor"
          /\ hasIsSupported => d.supported = "true"

\* C15: a dispatch goes through unshortening (Twitter), classification, the
\* manifest fetch (website branch), the check of the endpoint, Action.fetch
\* and isSupported in this order, one at a time and never back, and mounts
\* only after Action.fetch gave a descriptor and isSupported, when provided,
\* answered true.
C15_StagesInFixedOrder ==
  /\ [] (\A k \in 1..Len(disp) : StagesInOrder(k))
  /\ [][ \A k \in 1..Len(disp) :
           disp'[k].pc # disp[k].pc => StageRank(disp'[k].pc) > StageRank(disp[k].pc) ]_vars

\* A Twitter dispatch of a website link went through every stage and mounted.
C15_Witness ==
  \E k \in 1..Len(disp) :
    /\ platform = "twitter" /\ hasIsSupported
    /\ disp[k].pc = "mounted"
    /\ disp[k].nUnshorten = 1 /\ disp[k].nManifest = 1
    /\ disp[k].nFetch = 1 /\ disp[k].nSupported = 1

\* C16: a dispatch whose URL is an interstitial is checked with the
\* interstitial's state against the 'interstitials' level and fetches no
\* manifest; one whose URL is no interstitial is checked with the website's
\* state against the 'websites' level, and only such a dispatch fetches a
\* manifest; Action.fetch follows the check of the endpoint's state against
\* the 'actions' level.
C16_OneBranchPerDispatch ==
  \A k \in 1..Len(disp) :
    LET d == disp[k]
    IN /\ d.branch \in {"none", "interstitials", "websites"}
       /\ (d.branch # "none" /\ d.url = InterstitialUrl) =>
            d.branch = "interstitials" /\ d.branchState = trust.interstitial
              /\ d.nManifest = 0
       /\ (d.branch # "none" /\ d.url # InterstitialUrl) =>
            d.branch = "websites" /\ d.branchState = trust.website
       /\ d.nManifest > 0 => d.branch = "websites" /\ d.url # InterstitialUrl
       /\ d.nFetch > 0 => d.apiUrl # "none" /\ d.actionState = trust.action

\* On a registry with three different verdicts, an interstitial reached
\* Action.fetch without a manifest.
C16_Witness ==
  /\ trust = [website |-> "malicious", interstitial |-> "unknown", action |-> "trusted"]
  /\ \E k \in 1..Len(disp) :
       /\ disp[k].url = InterstitialUrl /\ disp[k].branch = "interstitials"
       /\ disp[k].nManifest = 0 /\ disp[k].nFetch = 1

\* C17: no dispatch fetches the manifest, calls Action.fetch or, on Twitter,
\* asks for the shortened link's target more than once, however its calls
\* end.
C17_EachFetchAtMostOnce ==
  \A k \in 1..Len(disp) :
    disp[k].nUnshorten <= 1 /\ disp[k].nManifest <= 1 /\ disp[k].nFetch <= 1

\* A dispatch made each of the three requests and ended after Action.fetch
\* failed; another ended in a failed fetch of the manifest.
C17_Witness ==
  /\ \E k \in 1..Len(disp) :
       /\ disp[k].nUnshorten = 1 /\ disp[k].nManifest = 1 /\ disp[k].nFetch = 1
       /\ disp[k].action = "undefined" /\ disp[k].pc = "returned"
  /\ \E k \in 1..Len(disp) :
       disp[k].nManifest = 1 /\ disp[k].nFetch = 0 /\ disp[k].pc = "swallowed"

\* The manifest was fetched and read, and mapped the page to no endpoint.
MappedToNothing(k) ==
  /\ disp[k].nManifest = 1
  /\ disp[k].pc \notin {"manifest", "swallowed"}
  /\ disp[k].apiUrl = "none"

\* C18: a dispatch whose manifest maps the page to no endpoint calls no
\* Action.fetch and ends by a return without a mount; one whose Action.fetch
\* failed asks no isSupported and ends by a return without a mount, no error
\* leaving handleNewNode.
C18_FailuresAreRejections ==
  \A k \in 1..Len(disp) :
    /\ MappedToNothing(k) => disp[k].nFetch = 0 /\ disp[k].pc = "returned"
    /\ disp[k].action = "undefined" => disp[k].nSupported = 0 /\ disp[k].pc = "returned"

\* With isSupported provided, one dispatch ended on a manifest without an
\* endpoint and another on a failed Action.fetch.
C18_Witness ==
  /\ hasIsSupported
  /\ \E k \in 1..Len(disp) : MappedToNothing(k)
  /\ \E k \in 1..Len(disp) : disp[k].action = "undefined"

\* C19: a wrapper is created only by a dispatch that found a candidate
\* anchor, and a dispatch of the no-card path that runs while its container
\* already holds a wrapper creates none, makes no network call and mounts
\* nothing.  The second part is stated of the callbacks that dispatch one
\* element.
C19_NoCardPathSkipsExistingWrapper ==
  /\ [] (\A k \in 1..Len(disp) : disp[k].created => disp[k].url # "none")
  /\ [][ (callbacks' = callbacks + 1 /\ Len(disp') = Len(disp) + 1) =>
           LET d == disp'[Len(disp')]
           IN (d.mp.kind # "slot" /\ WrappersOf(dom, d.node.post) # <<>>) =>
                /\ ~d.created
                /\ d.pc = "returned"
                /\ d.nUnshorten = 0 /\ d.nManifest = 0 /\ d.nFetch = 0 ]_vars

\* C20: two dispatches for different inserted elements never mount into the
\* same mount point.
C20_OwnMountPoint ==
  \A j, k \in 1..Len(disp) :
    (/\ disp[j].node # disp[k].node
     /\ disp[j].pc = "mounted" /\ disp[k].pc = "mounted")
      => disp[j].mp # disp[k].mp

\* The wrappers of a place are in the order of their making when appended
\* (first is oldest) and in the reverse order when prepended.
OldestFirst(seq) == \A i, j \in 1..Len(seq) : i < j => seq[i].id < seq[j].id
NewestFirst(seq) == \A i, j \in 1..Len(seq) : i < j => seq[i].id > seq[j].id

\* The wrapper a dispatch made sits, while it is in the tree, where the
\* element's container asks for and carries the marker of a message exactly
\* when the container is one.
PlacedByContainer(k) ==
  \A l \in Posts \X Places : \A i \in 1..Len(dom.wrappers[l]) :
    dom.wrappers[l][i].id = disp[k].mp.id =>
      /\ l = <<disp[k].node.post, IF disp[k].node.dm THEN "grand" ELSE "parent">>
      /\ ("dialect-dm" \in dom.wrappers[l][i].classList) = disp[k].node.dm
      /\ "dialect-wrapper" \in dom.wrappers[l][i].classList

\* A wrapper that holds a render root has the top margin, and the bottom
\* margin exactly when it carries the marker of a message; one that holds
\* nothing has neither.
MarginsByMarker(w) ==
  IF w.children = <<>>
    THEN w.marginTop = "" /\ w.marginBottom = ""
    ELSE /\ w.marginTop = "12px"
         /\ (w.marginBottom = "8px") = ("dialect-dm" \in w.classList)
         /\ w.marginBottom \in {"", "8px"}

\* C21: getContainerForLink prepends a marked wrapper for a link inside a
\* message and appends an unmarked one otherwise; a mounted wrapper has
\* margin-top, and margin-bottom exactly when it is marked.
C21_WrapperPlacedAndStyled ==
  /\ \A k \in 1..Len(disp) : disp[k].created => PlacedByContainer(k)
  /\ \A p \in Posts : /\ NewestFirst(dom.wrappers[<<p, "grand">>])
                      /\ OldestFirst(dom.wrappers[<<p, "parent">>])
  /\ \A w \in WrapperElements(dom) : MarginsByMarker(w)

\* On Twitter, a wrapper inside a message and one inside a tweet were both
\* mounted.
C21_Witness ==
  /\ \E w \in WrapperElements(dom) :
       "dialect-dm" \in w.classList /\ w.children # <<>> /\ w.marginBottom = "8px"
  /\ \E w \in WrapperElements(dom) :
       "dialect-dm" \notin w.classList /\ w.children # <<>> /\ w.marginTop = "12px"

\* C22: a dispatch for an element without a link-preview card takes the last
\* anchor of the text region as its candidate, and creates no wrapper when
\* the text region holds no anchor.
C22_LastAnchorOrNoWrapper ==
  \A k \in 1..Len(disp) :
    LET d == disp[k]
    IN d.node.card = "none" =>
         /\ d.node.links = <<>> => ~d.created
         /\ (d.node.links # <<>> /\ d.pc = "unshorten") =>
              d.url = d.node.links[Len(d.node.links)]

\* C23: the bookmark button's parent of a tweet holds at most one dropdown
\* container, and holds one exactly when it carries data-dialect-processed;
\* the Farcaster observer builds none.
C23_AtMostOneDropdown ==
  \A p \in Posts :
    /\ dom.dropdowns[p] <= 1
    /\ (dom.dropdowns[p] = 1) = dom.processed[p]
    /\ platform = "farcaster" => dom.dropdowns[p] = 0

\* Two elements of the host page inside the same tweet were dispatched, and
\* the tweet has its one dropdown.
C23_Witness ==
  \E j, k \in 1..Len(disp) :
    /\ j < k
    /\ platform = "twitter"
    /\ disp[j].node.className = "css-175oi2r" /\ disp[k].node.className = "css-175oi2r"
    /\ disp[j].node.localName = "div" /\ disp[k].node.localName = "div"
    /\ disp[j].node.up /\ disp[k].node.up
    /\ disp[j].node.post = disp[k].node.post
    /\ ~IsMessage(disp[k].node.post)
    /\ dom.dropdowns[disp[k].node.post] = 1

\* The class names of the nodes the pipeline itself inserts.
PipelineClasses ==
  {"dialect-wrapper", "dialect-wrapper dialect-dm", "dialect-action-root-container",
   "dialect-dropdown-container"}

FromPipeline(k) == disp[k].node.className \in PipelineClasses

InFlight(k) == disp[k].pc \in {"unshorten", "manifest", "fetch", "supported"}

\* No mutation record is queued and no dispatch awaits a call.
Quiescent == mutq = <<>> /\ \A k \in 1..Len(disp) : ~InFlight(k)

\* The dispatch made no wrapper, removed none, made no network call, mounted
\* nothing, and changed the tree at most by building the one dropdown of a
\* tweet.
NoEffectButDropdown(k) ==
  /\ ~disp[k].created /\ ~disp[k].removed
  /\ disp[k].nUnshorten = 0 /\ disp[k].nManifest = 0
  /\ disp[k].nFetch = 0 /\ disp[k].nSupported = 0
  /\ disp[k].pc = "returned"
  /\ disp[k].touched =>
       /\ platform = "twitter"
       /\ disp[k].node.up /\ ~IsMessage(disp[k].node.post)
       /\ dom.dropdowns[disp[k].node.post] = 1

\* C24 as stated: every dispatch for a node the pipeline inserted changes
\* nothing in the tree and makes no network call, and the system comes to
\* rest, no record queued and no dispatch in flight, and stays there.
C24_PipelineNodesNoEffect ==
  /\ [] (\A k \in 1..Len(disp) : FromPipeline(k) => NoEffect(k))
  /\ <>[] Quiescent

\* C24 as amended: every dispatch for a node the pipeline inserted makes no
\* network call, no wrapper and no mount, and changes the tree at most by
\* building the dropdown of a tweet that had none; and the system comes to
\* rest and stays there.
C24_PipelineNodesOnlyDropdown ==
  /\ [] (\A k \in 1..Len(disp) : FromPipeline(k) => NoEffectButDropdown(k))
  /\ <>[] Quiescent

\* The host page has inserted all it had to insert, a wrapper, a render root
\* and a dropdown container were each dispatched, one of them built the
\* tweet's dropdown, and the system is at rest.
C24_Witness ==
  /\ inserts = MaxInserts
  /\ Quiescent
  /\ \E k \in 1..Len(disp) : disp[k].node.className = "dialect-wrapper"
  /\ \E k \in 1..Len(disp) : disp[k].node.className = "dialect-action-root-container"
  /\ \E k \in 1..Len(disp) : disp[k].node.className = "dialect-dropdown-container"
  /\ \E k \in 1..Len(disp) : FromPipeline(k) /\ disp[k].touched

====
